---- MODULE Spec2Model ----
(***************************************************************************)
(* Model of app.py, the data science salary dashboard: load_data (the      *)
(* enrichment of the raw table, cached by st.cache_data), the six sidebar  *)
(* multiselects, and the boolean-mask filter that yields filtered_df.      *)
(* A table is a sequence of rows; a row is a function from column names to *)
(* values; a string that the code inspects character by character (the job *)
(* title) is a sequence of one-character strings.                          *)
(***************************************************************************)
EXTENDS Integers, Sequences, FiniteSets, TLC

(* ---------------------------- bounds ---------------------------------- *)
MaxRows == 3
MaxRuns == 3
RatioSlack == 3
MaxTitleLen == 3

(* ------------------------ pandas primitives --------------------------- *)
\* The missing value (NaN) that Series.map and pd.cut produce.
NaN == "nan"

\* Series.map(dict) on one cell: a key absent from the dict gives NaN.
MapCode(m, code) == IF code \in DOMAIN m THEN m[code] ELSE NaN

\* df[col] = series: the column is added, or replaced when the table
\* already has it; every other column and the order of rows are left alone.
AssignColumn(d, col, series) ==
    [i \in 1..Len(d) |-> (col :> series[i]) @@ d[i]]

\* Series.unique(): the distinct values of a column, NaN included.
unique(d, col) == {d[i][col] : i \in 1..Len(d)}

\* Series.isin(values) on one cell: membership; a NaN cell matches a NaN
\* among the values.
isin(v, values) == v \in values

(* --------------------------- load_data -------------------------------- *)
exp_level_map ==
    ("EN" :> "Entry-level") @@ ("MI" :> "Mid-level") @@
    ("SE" :> "Senior-level") @@ ("EX" :> "Executive-level")

emp_type_map ==
    ("FT" :> "Full-time") @@ ("PT" :> "Part-time") @@
    ("CT" :> "Contract") @@ ("FL" :> "Freelance")

company_size_map ==
    ("S" :> "Small") @@ ("M" :> "Medium") @@ ("L" :> "Large")

\* Variant: a first bin with no effective lower edge.
bins_open_below == <<-1000, 0, 50, 100>>
bins == <<-1, 0, 50, 100>>

labels == <<"On-site", "Hybrid", "Full-remote">>

\* Variant: right=False, bin i is [bins[i], bins[i+1]).
cut_left_closed(x) ==
    IF \E i \in 1..Len(labels) : bins[i] <= x /\ x < bins[i + 1]
    THEN labels[CHOOSE i \in 1..Len(labels) : bins[i] <= x /\ x < bins[i + 1]]
    ELSE NaN
\* pd.cut(x, bins, labels) with the default right=True: bin i is the
\* interval (bins[i], bins[i+1]]; a value in no bin gives NaN.
cut(x) ==
    IF \E i \in 1..Len(labels) : bins[i] < x /\ x <= bins[i + 1]
    THEN labels[CHOOSE i \in 1..Len(labels) : bins[i] < x /\ x <= bins[i + 1]]
    ELSE NaN

americas == <<"US", "CA", "MX", "BR", "CO">>
europe == <<"GB", "DE", "ES", "FR", "NL", "PT", "CH", "IE", "AT", "SI", "HR">>
asia == <<"IN", "SG", "JP", "HK", "IL", "AE", "PK", "TH">>
oceania == <<"AU", "NZ">>
africa == <<"NG", "KE", "GH">>

\* x in list
InList(x, l) == \E i \in 1..Len(l) : l[i] = x

\* Variant: the africa branch is missing.
get_region_no_africa(country_code) ==
    IF InList(country_code, americas) THEN "Americas"
    ELSE IF InList(country_code, europe) THEN "Europe"
    ELSE IF InList(country_code, asia) THEN "Asia"
    ELSE IF InList(country_code, oceania) THEN "Oceania"
    ELSE "Other"
get_region(country_code) ==
    IF InList(country_code, americas) THEN "Americas"
    ELSE IF InList(country_code, europe) THEN "Europe"
    ELSE IF InList(country_code, asia) THEN "Asia"
    ELSE IF InList(country_code, oceania) THEN "Oceania"
    ELSE IF InList(country_code, africa) THEN "Africa"
    ELSE "Other"

\* str.lower() on the letters A-Z: the lower-case letter of each upper-case
\* letter.
lower_of ==
    ("A" :> "a") @@ ("B" :> "b") @@ ("C" :> "c") @@ ("D" :> "d") @@ ("E" :> "e") @@
    ("F" :> "f") @@ ("G" :> "g") @@ ("H" :> "h") @@ ("I" :> "i") @@ ("J" :> "j") @@
    ("K" :> "k") @@ ("L" :> "l") @@ ("M" :> "m") @@ ("N" :> "n") @@ ("O" :> "o") @@
    ("P" :> "p") @@ ("Q" :> "q") @@ ("R" :> "r") @@ ("S" :> "s") @@ ("T" :> "t") @@
    ("U" :> "u") @@ ("V" :> "v") @@ ("W" :> "w") @@ ("X" :> "x") @@ ("Y" :> "y") @@
    ("Z" :> "z")

\* str.lower(): every upper-case letter becomes its lower-case letter,
\* every other character stays.
lower_char(c) == IF c \in DOMAIN lower_of THEN lower_of[c] ELSE c
str_lower(s) == [i \in 1..Len(s) |-> lower_char(s[i])]

\* sub in s, for strings
Contains(s, sub) ==
    \E i \in 0..(Len(s) - Len(sub)) :
        \A j \in 1..Len(sub) : s[i + j] = sub[j]

kw_data_scientist == <<"d", "a", "t", "a", " ", "s", "c", "i", "e", "n", "t", "i", "s", "t">>
kw_data_engineer == <<"d", "a", "t", "a", " ", "e", "n", "g", "i", "n", "e", "e", "r">>
kw_data_analyst == <<"d", "a", "t", "a", " ", "a", "n", "a", "l", "y", "s", "t">>
kw_machine_learning == <<"m", "a", "c", "h", "i", "n", "e", " ", "l", "e", "a", "r", "n", "i", "n", "g">>
kw_ml == <<"m", "l">>
kw_research == <<"r", "e", "s", "e", "a", "r", "c", "h">>
kw_scientist == <<"s", "c", "i", "e", "n", "t", "i", "s", "t">>
kw_analytics == <<"a", "n", "a", "l", "y", "t", "i", "c", "s">>
kw_architect == <<"a", "r", "c", "h", "i", "t", "e", "c", "t">>
kw_manager == <<"m", "a", "n", "a", "g", "e", "r">>
kw_lead == <<"l", "e", "a", "d">>
kw_director == <<"d", "i", "r", "e", "c", "t", "o", "r">>
kw_head == <<"h", "e", "a", "d">>

\* Variant: the research rule is tested before the machine-learning rule.
categorize_job_research_first(t) ==
    LET title == str_lower(t) IN
    IF Contains(title, kw_data_scientist) THEN "Data Scientist"
    ELSE IF Contains(title, kw_data_engineer) THEN "Data Engineer"
    ELSE IF Contains(title, kw_data_analyst) THEN "Data Analyst"
    ELSE IF Contains(title, kw_research) \/ Contains(title, kw_scientist)
        THEN "Research Scientist"
    ELSE IF Contains(title, kw_machine_learning) \/ Contains(title, kw_ml)
        THEN "Machine Learning Engineer"
    ELSE IF Contains(title, kw_analytics) THEN "Analytics Engineer"
    ELSE IF Contains(title, kw_architect) THEN "Data Architect"
    ELSE IF \/ Contains(title, kw_manager) \/ Contains(title, kw_lead)
            \/ Contains(title, kw_director) \/ Contains(title, kw_head)
        THEN "Management"
    ELSE "Other"
categorize_job(t) ==
    LET title == str_lower(t) IN
    IF Contains(title, kw_data_scientist) THEN "Data Scientist"
    ELSE IF Contains(title, kw_data_engineer) THEN "Data Engineer"
    ELSE IF Contains(title, kw_data_analyst) THEN "Data Analyst"
    ELSE IF Contains(title, kw_machine_learning) \/ Contains(title, kw_ml)
        THEN "Machine Learning Engineer"
    ELSE IF Contains(title, kw_research) \/ Contains(title, kw_scientist)
        THEN "Research Scientist"
    ELSE IF Contains(title, kw_analytics) THEN "Analytics Engineer"
    ELSE IF Contains(title, kw_architect) THEN "Data Architect"
    ELSE IF \/ Contains(title, kw_manager) \/ Contains(title, kw_lead)
            \/ Contains(title, kw_director) \/ Contains(title, kw_head)
        THEN "Management"
    ELSE "Other"

\* The right-hand sides of the column assignments of load_data: one value
\* per row of the table, in row order.
recode_experience(d) ==
    [i \in 1..Len(d) |-> MapCode(exp_level_map, d[i]["experience_level"])]
recode_employment(d) ==
    [i \in 1..Len(d) |-> MapCode(emp_type_map, d[i]["employment_type"])]
\* Variant: an unmapped code is kept as it is.
recode_company_size_fallback(d) ==
    [i \in 1..Len(d) |->
        IF d[i]["company_size"] \in DOMAIN company_size_map
        THEN company_size_map[d[i]["company_size"]]
        ELSE d[i]["company_size"]]
recode_company_size(d) ==
    [i \in 1..Len(d) |-> MapCode(company_size_map, d[i]["company_size"])]
derive_remote_work_type(d) ==
    [i \in 1..Len(d) |-> cut(d[i]["remote_ratio"])]
derive_region(d) ==
    [i \in 1..Len(d) |-> get_region(d[i]["company_location"])]
derive_job_category(d) ==
    [i \in 1..Len(d) |-> categorize_job(d[i]["job_title"])]

\* Variant: rows with a missing recoded value are dropped.
Enrich_dropna(csv) ==
    LET d1 == AssignColumn(csv, "experience_level", recode_experience(csv))
        d2 == AssignColumn(d1, "employment_type", recode_employment(d1))
        d3 == AssignColumn(d2, "company_size", recode_company_size(d2))
        d4 == AssignColumn(d3, "remote_work_type", derive_remote_work_type(d3))
        d5 == AssignColumn(d4, "region", derive_region(d4))
        d6 == AssignColumn(d5, "job_category", derive_job_category(d5))
    IN  SelectSeq(d6, LAMBDA r : /\ r["experience_level"] # NaN
                                 /\ r["employment_type"] # NaN
                                 /\ r["company_size"] # NaN)
Enrich(csv) ==
    LET d1 == AssignColumn(csv, "experience_level", recode_experience(csv))
        d2 == AssignColumn(d1, "employment_type", recode_employment(d1))
        d3 == AssignColumn(d2, "company_size", recode_company_size(d2))
        d4 == AssignColumn(d3, "remote_work_type", derive_remote_work_type(d3))
        d5 == AssignColumn(d4, "region", derive_region(d4))
        d6 == AssignColumn(d5, "job_category", derive_job_category(d5))
    IN  d6

\* Variant: a cache hit runs the transformations again on the cached table.
load_data_reenrich(c, csv) == IF c.hit THEN Enrich(c.value) ELSE Enrich(csv)
\* st.cache_data around load_data: the first call computes and stores the
\* enriched table, every later call returns the stored value.
load_data(c, csv) == IF c.hit THEN c.value ELSE Enrich(csv)

(* ------------------------ sidebar and filter -------------------------- *)
\* options= and default= of the six multiselects: the unique values of the
\* column.
options(d) ==
    [ years         |-> unique(d, "work_year"),
      exp_levels    |-> unique(d, "experience_level"),
      job_cats      |-> unique(d, "job_category"),
      regions       |-> unique(d, "region"),
      company_sizes |-> unique(d, "company_size"),
      remote_types  |-> unique(d, "remote_work_type") ]

\* Variants: the last two tests joined by |; rows with a missing value
\* never match; the region test left out.
mask_size_or_remote(r, sel) ==
    /\ isin(r["work_year"], sel.years)
    /\ isin(r["experience_level"], sel.exp_levels)
    /\ isin(r["job_category"], sel.job_cats)
    /\ isin(r["region"], sel.regions)
    /\ \/ isin(r["company_size"], sel.company_sizes)
       \/ isin(r["remote_work_type"], sel.remote_types)
mask_nan_dropped(r, sel) ==
    /\ isin(r["work_year"], sel.years)
    /\ isin(r["experience_level"], sel.exp_levels)
    /\ isin(r["job_category"], sel.job_cats)
    /\ isin(r["region"], sel.regions)
    /\ isin(r["company_size"], sel.company_sizes)
    /\ isin(r["remote_work_type"], sel.remote_types)
    /\ r["experience_level"] # NaN
    /\ r["company_size"] # NaN
    /\ r["remote_work_type"] # NaN
mask_without_region(r, sel) ==
    /\ isin(r["work_year"], sel.years)
    /\ isin(r["experience_level"], sel.exp_levels)
    /\ isin(r["job_category"], sel.job_cats)
    /\ isin(r["company_size"], sel.company_sizes)
    /\ isin(r["remote_work_type"], sel.remote_types)
\* The boolean mask of filtered_df, for one row.
mask(r, sel) ==
    /\ isin(r["work_year"], sel.years)
    /\ isin(r["experience_level"], sel.exp_levels)
    /\ isin(r["job_category"], sel.job_cats)
    /\ isin(r["region"], sel.regions)
    /\ isin(r["company_size"], sel.company_sizes)
    /\ isin(r["remote_work_type"], sel.remote_types)

\* df[mask]: the rows whose mask is true, in the order of df.
filter_rows(d, sel) == SelectSeq(d, LAMBDA r : mask(r, sel))

(* ------------------------------ inputs -------------------------------- *)
T_MachineLearningResearchScientist == <<"M", "a", "c", "h", "i", "n", "e", " ", "L", "e", "a", "r", "n", "i", "n", "g", " ", "R", "e", "s", "e", "a", "r", "c", "h", " ", "S", "c", "i", "e", "n", "t", "i", "s", "t">>
T_SeniorDataAnalyst == <<"S", "e", "n", "i", "o", "r", " ", "D", "a", "t", "a", " ", "A", "n", "a", "l", "y", "s", "t">>
T_DataScientist == <<"D", "a", "t", "a", " ", "S", "c", "i", "e", "n", "t", "i", "s", "t">>
T_LeadDataScientist == <<"L", "e", "a", "d", " ", "D", "a", "t", "a", " ", "S", "c", "i", "e", "n", "t", "i", "s", "t">>
T_DataEngineer == <<"D", "a", "t", "a", " ", "E", "n", "g", "i", "n", "e", "e", "r">>
T_DataAnalyst == <<"D", "a", "t", "a", " ", "A", "n", "a", "l", "y", "s", "t">>
T_MLEngineer == <<"M", "L", " ", "E", "n", "g", "i", "n", "e", "e", "r">>
T_HTMLDeveloper == <<"H", "T", "M", "L", " ", "D", "e", "v", "e", "l", "o", "p", "e", "r">>
T_ResearchEngineer == <<"R", "e", "s", "e", "a", "r", "c", "h", " ", "E", "n", "g", "i", "n", "e", "e", "r">>
T_AppliedScientist == <<"A", "p", "p", "l", "i", "e", "d", " ", "S", "c", "i", "e", "n", "t", "i", "s", "t">>
T_AnalyticsEngineer == <<"A", "n", "a", "l", "y", "t", "i", "c", "s", " ", "E", "n", "g", "i", "n", "e", "e", "r">>
T_DataAnalyticsManager == <<"D", "a", "t", "a", " ", "A", "n", "a", "l", "y", "t", "i", "c", "s", " ", "M", "a", "n", "a", "g", "e", "r">>
T_DataArchitect == <<"D", "a", "t", "a", " ", "A", "r", "c", "h", "i", "t", "e", "c", "t">>
T_DataManager == <<"D", "a", "t", "a", " ", "M", "a", "n", "a", "g", "e", "r">>
T_TeamLead == <<"T", "e", "a", "m", " ", "L", "e", "a", "d">>
T_DirectorofData == <<"D", "i", "r", "e", "c", "t", "o", "r", " ", "o", "f", " ", "D", "a", "t", "a">>
T_HeadofData == <<"H", "e", "a", "d", " ", "o", "f", " ", "D", "a", "t", "a">>
T_BIDeveloper == <<"B", "I", " ", "D", "e", "v", "e", "l", "o", "p", "e", "r">>
T_UpperDataScientist == <<"D", "A", "T", "A", " ", "S", "C", "I", "E", "N", "T", "I", "S", "T">>
T_DataTwoSpacesScientist == <<"D", "a", "t", "a", " ", " ", "S", "c", "i", "e", "n", "t", "i", "s", "t">>
T_ML == <<"M", "L">>
T_Head == <<"H", "e", "a", "d">>
T_BI == <<"B", "I">>

ConcreteTitles ==
    { T_MachineLearningResearchScientist, T_SeniorDataAnalyst,
      T_DataScientist, T_LeadDataScientist, T_DataEngineer, T_DataAnalyst,
      T_MLEngineer, T_HTMLDeveloper, T_ResearchEngineer, T_AppliedScientist,
      T_AnalyticsEngineer, T_DataAnalyticsManager, T_DataArchitect,
      T_DataManager, T_TeamLead, T_DirectorofData, T_HeadofData,
      T_BIDeveloper, T_UpperDataScientist, T_DataTwoSpacesScientist,
      T_ML, T_Head, T_BI }

\* Short titles over a few characters, so that both cases of the two-letter
\* keyword occur in every position.
TitleAlphabet == {"M", "l", "x"}
ShortTitles == UNION {[1..k -> TitleAlphabet] : k \in 0..MaxTitleLen}
Titles == ConcreteTitles \cup ShortTitles

Ratios == (0 - RatioSlack)..(100 + RatioSlack)

ListSet(l) == {l[i] : i \in 1..Len(l)}
CountryCodes ==
    ListSet(americas) \cup ListSet(europe) \cup ListSet(asia)
    \cup ListSet(oceania) \cup ListSet(africa) \cup {"ZZ", "us", "CN", ""}

ExperienceCodes == DOMAIN exp_level_map \cup {"XX", "Entry-level"}
EmploymentCodes == DOMAIN emp_type_map \cup {"XX"}
CompanySizeCodes == DOMAIN company_size_map \cup {"XL", "s"}

RowA ==
    [ work_year |-> 2020, experience_level |-> "EN", employment_type |-> "FT",
      job_title |-> T_ML, salary_in_usd |-> 100,
      remote_ratio |-> 0, company_location |-> "US", company_size |-> "S" ]
RowB ==
    [ work_year |-> 2021, experience_level |-> "SE", employment_type |-> "CT",
      job_title |-> T_BI, salary_in_usd |-> 200,
      remote_ratio |-> 50, company_location |-> "DE", company_size |-> "M" ]
RowC ==
    [ work_year |-> 2021, experience_level |-> "XX", employment_type |-> "FT",
      job_title |-> T_Head, salary_in_usd |-> 300,
      remote_ratio |-> 100, company_location |-> "ZZ", company_size |-> "XL" ]

\* Tables of up to MaxRows rows that differ in every filter dimension; rows
\* may repeat.
MainPool == {RowA, RowB, RowC}
MainTables == UNION {[1..k -> MainPool] : k \in 0..MaxRows}

\* One-row tables that run one source column through its whole range.
EnrichPool ==
    {[RowA EXCEPT !.remote_ratio = x] : x \in Ratios}
    \cup {[RowA EXCEPT !.job_title = x] : x \in Titles}
    \cup {[RowA EXCEPT !.company_location = x] : x \in CountryCodes}
    \cup {[RowA EXCEPT !.experience_level = x] : x \in ExperienceCodes}
    \cup {[RowA EXCEPT !.employment_type = x] : x \in EmploymentCodes}
    \cup {[RowA EXCEPT !.company_size = x] : x \in CompanySizeCodes}
EnrichTables == {<<r>> : r \in EnrichPool}

RawTables == MainTables \cup EnrichTables

(* ------------------------------ state --------------------------------- *)
VARIABLES
    raw,          \* the rows of ds_salaries.csv
    cache,        \* the st.cache_data entry of load_data
    df,           \* the module-level df of the current script run
    selected,     \* the values of the six multiselects
    filtered_df,  \* the module-level filtered_df of the current script run
    pc,           \* "start" before the first script run, "rendered" after one
    runs          \* number of script runs so far

vars == <<raw, cache, df, selected, filtered_df, pc, runs>>

NoSelection ==
    [ years |-> {}, exp_levels |-> {}, job_cats |-> {}, regions |-> {},
      company_sizes |-> {}, remote_types |-> {} ]

Init ==
    /\ raw \in RawTables
    /\ cache = [hit |-> FALSE, value |-> <<>>]
    /\ df = <<>>
    /\ selected = NoSelection
    /\ filtered_df = <<>>
    /\ pc = "start"
    /\ runs = 0

\* One run of the script, top to bottom, with the multiselects returning sel.
RunScript(sel) ==
    LET d == load_data(cache, raw) IN
    /\ cache' = [hit |-> TRUE, value |-> d]
    /\ df' = d
    /\ selected' = sel
    /\ filtered_df' = filter_rows(d, sel)
    /\ pc' = "rendered"
    /\ runs' = runs + 1
    /\ UNCHANGED raw

\* The first run: no widget state yet, every multiselect returns its default.
FirstRun ==
    /\ pc = "start"
    /\ RunScript(options(load_data(cache, raw)))

\* The user changes one multiselect to a subset of its options; the script
\* reruns with the other five unchanged.
SelectYears ==
    /\ pc = "rendered" /\ runs < MaxRuns
    /\ \E S \in SUBSET options(df).years :
        /\ S # selected.years
        /\ RunScript([selected EXCEPT !.years = S])

SelectExpLevels ==
    /\ pc = "rendered" /\ runs < MaxRuns
    /\ \E S \in SUBSET options(df).exp_levels :
        /\ S # selected.exp_levels
        /\ RunScript([selected EXCEPT !.exp_levels = S])

SelectJobCats ==
    /\ pc = "rendered" /\ runs < MaxRuns
    /\ \E S \in SUBSET options(df).job_cats :
        /\ S # selected.job_cats
        /\ RunScript([selected EXCEPT !.job_cats = S])

SelectRegions ==
    /\ pc = "rendered" /\ runs < MaxRuns
    /\ \E S \in SUBSET options(df).regions :
        /\ S # selected.regions
        /\ RunScript([selected EXCEPT !.regions = S])

SelectCompanySizes ==
    /\ pc = "rendered" /\ runs < MaxRuns
    /\ \E S \in SUBSET options(df).company_sizes :
        /\ S # selected.company_sizes
        /\ RunScript([selected EXCEPT !.company_sizes = S])

SelectRemoteTypes ==
    /\ pc = "rendered" /\ runs < MaxRuns
    /\ \E S \in SUBSET options(df).remote_types :
        /\ S # selected.remote_types
        /\ RunScript([selected EXCEPT !.remote_types = S])

Next ==
    \/ FirstRun
    \/ SelectYears
    \/ SelectExpLevels
    \/ SelectJobCats
    \/ SelectRegions
    \/ SelectCompanySizes
    \/ SelectRemoteTypes

Spec == Init /\ [][Next]_vars

TypeOK ==
    /\ pc \in {"start", "rendered"}
    /\ runs \in 0..MaxRuns
    /\ Len(df) <= Len(raw)

(* ------------------------------ claims -------------------------------- *)
Rendered == pc = "rendered"

\* C1: after any sequence of selection changes, filtered_df is exactly the
\* rows of df, in the order of df, whose value in each of the six dimensions
\* is in that dimension's selected set: row i of df is kept iff it passes all
\* six membership tests, and the j-th kept row is the j-th row of the result.
C1_FilterIsConjunctionInOrder ==
    Rendered =>
        LET Keep == {i \in 1..Len(df) :
                        /\ df[i]["work_year"] \in selected.years
                        /\ df[i]["experience_level"] \in selected.exp_levels
                        /\ df[i]["job_category"] \in selected.job_cats
                        /\ df[i]["region"] \in selected.regions
                        /\ df[i]["company_size"] \in selected.company_sizes
                        /\ df[i]["remote_work_type"] \in selected.remote_types}
            Nth(j) == CHOOSE i \in Keep : Cardinality({k \in Keep : k <= i}) = j
        IN  /\ Len(filtered_df) = Cardinality(Keep)
            /\ \A j \in 1..Len(filtered_df) : filtered_df[j] = df[Nth(j)]

\* Two selectors have been narrowed and the filter kept the first and the
\* third of three distinct rows, dropping the second.
C1_Witness ==
    /\ Rendered /\ runs >= 3 /\ Len(df) = 3 /\ Len(filtered_df) = 2
    /\ df[1] # df[2] /\ df[2] # df[3] /\ df[1] # df[3]
    /\ filtered_df[1] = df[1] /\ filtered_df[2] = df[3]
    /\ selected.job_cats # options(df).job_cats
    /\ selected.regions # options(df).regions

\* C2: when every selected set is the full observed domain of its column
\* (the default selection), filtered_df is the whole of df, row for row, for
\* every enriched table, those with missing values included.
C2_FullDomainKeepsEverything ==
    (Rendered /\ selected = options(df)) => filtered_df = df

\* The selection is back at the full domain after a change, on a table of
\* three rows one of which has missing values.
C2_Witness ==
    /\ Rendered /\ runs >= 3 /\ selected = options(df)
    /\ Len(df) = 3 /\ Len(filtered_df) = 3
    /\ \E i \in 1..Len(df) : df[i]["experience_level"] = NaN

\* C3: when any one of the six selected sets is empty, filtered_df has no
\* rows, whatever the other five are, and the script run has completed.
C3_EmptySetGivesNoRows ==
    (/\ pc # "start"
     /\ \/ selected.years = {}
        \/ selected.exp_levels = {}
        \/ selected.job_cats = {}
        \/ selected.regions = {}
        \/ selected.company_sizes = {}
        \/ selected.remote_types = {})
    => (Rendered /\ Len(filtered_df) = 0 /\ filtered_df = <<>>)

\* Only the region selector is empty, the other five are at the full domain,
\* and the table has rows.
C3_Witness ==
    /\ Rendered /\ Len(df) >= 2 /\ filtered_df = <<>>
    /\ selected.regions = {}
    /\ selected = [options(df) EXCEPT !.regions = {}]

\* C4: for every integer remote_ratio r with 0 <= r <= 100, the enriched row
\* has remote_work_type On-site when r = 0, Hybrid when 0 < r <= 50 and
\* Full-remote when 50 < r <= 100.
C4_RemoteRatioBuckets ==
    Rendered =>
        \A i \in 1..Len(raw) :
            LET r == raw[i]["remote_ratio"]
                t == df[i]["remote_work_type"]
            IN  (0 <= r /\ r <= 100) =>
                    /\ (r = 0) => t = "On-site"
                    /\ (0 < r /\ r <= 50) => t = "Hybrid"
                    /\ (50 < r /\ r <= 100) => t = "Full-remote"
                    /\ Cardinality({l \in {"On-site", "Hybrid", "Full-remote"} : l = t}) = 1

\* A row with remote_ratio exactly 50 has been enriched to Hybrid.
C4_Witness ==
    /\ Rendered
    /\ \E i \in 1..Len(raw) :
        raw[i]["remote_ratio"] = 50 /\ df[i]["remote_work_type"] = "Hybrid"

\* C5: job_category is the label of the earliest rule, in the order data
\* scientist, data engineer, data analyst, machine learning or ml, research
\* or scientist, analytics, architect, manager or lead or director or head,
\* one of whose substrings occurs in the lower-cased title, and Other when no
\* rule matches; Machine Learning Research Scientist gives Machine Learning
\* Engineer and Senior Data Analyst gives Data Analyst.
C5_JobCategoryFirstMatch ==
    Rendered =>
        \A i \in 1..Len(raw) :
            LET rules == << {kw_data_scientist}, {kw_data_engineer},
                            {kw_data_analyst}, {kw_machine_learning, kw_ml},
                            {kw_research, kw_scientist}, {kw_analytics},
                            {kw_architect},
                            {kw_manager, kw_lead, kw_director, kw_head} >>
                names == << "Data Scientist", "Data Engineer", "Data Analyst",
                            "Machine Learning Engineer", "Research Scientist",
                            "Analytics Engineer", "Data Architect",
                            "Management" >>
                title == raw[i]["job_title"]
                cat   == df[i]["job_category"]
                Lowered == [k \in 1..Len(title) |->
                              IF title[k] \in DOMAIN lower_of
                              THEN lower_of[title[k]] ELSE title[k]]
                Occurs(kw, low) ==
                    \E a \in 1..(Len(low) - Len(kw) + 1) :
                        \A b \in 1..Len(kw) : low[a + b - 1] = kw[b]
                Hits(low) ==
                    {n \in 1..Len(rules) : \E kw \in rules[n] : Occurs(kw, low)}
            IN  /\ \A low \in {<<>> \o Lowered} : \A hits \in {Hits(low)} :
                    /\ hits = {} => cat = "Other"
                    /\ hits # {} =>
                         cat = names[CHOOSE n \in hits : \A m \in hits : n <= m]
                /\ cat \in {names[n] : n \in 1..Len(names)} \cup {"Other"}
                /\ title = T_MachineLearningResearchScientist
                     => cat = "Machine Learning Engineer"
                /\ title = T_SeniorDataAnalyst => cat = "Data Analyst"

\* The title Machine Learning Research Scientist, which matches both the
\* machine-learning rule and the research rule, has been categorised.
C5_Witness ==
    /\ Rendered
    /\ \E i \in 1..Len(raw) :
        /\ raw[i]["job_title"] = T_MachineLearningResearchScientist
        /\ df[i]["job_category"] = "Machine Learning Engineer"

\* C6: the five country lists are pairwise disjoint; a code in a list gets
\* that list's region, a code in no list gets Other; so every
\* company_location gets exactly one of the six region labels.
C6_RegionPartition ==
    Rendered =>
        LET sets == << ListSet(americas), ListSet(europe), ListSet(asia),
                       ListSet(oceania), ListSet(africa) >>
            names == << "Americas", "Europe", "Asia", "Oceania", "Africa" >>
        IN  /\ \A a, b \in 1..5 : a # b => sets[a] \cap sets[b] = {}
            /\ \A i \in 1..Len(raw) :
                LET c == raw[i]["company_location"]
                    g == df[i]["region"]
                IN  /\ \A a \in 1..5 : c \in sets[a] => g = names[a]
                    /\ (\A a \in 1..5 : c \notin sets[a]) => g = "Other"
                    /\ g \in {names[a] : a \in 1..5} \cup {"Other"}
                    /\ c = "US" => g = "Americas"
                    /\ c = "BR" => g = "Americas"
                    /\ c = "ZZ" => g = "Other"

\* A code of the last list checked (Africa) has been classified.
C6_Witness ==
    /\ Rendered
    /\ \E i \in 1..Len(raw) :
        raw[i]["company_location"] = "KE" /\ df[i]["region"] = "Africa"

\* C7: the enriched table has as many rows as the raw table, in the same
\* order; every raw column is still a column of it; the only columns added
\* are remote_work_type, region and job_category; and every raw column that
\* load_data does not recode holds the raw value.
C7_EnrichmentFrame ==
    Rendered =>
        /\ Len(df) = Len(raw)
        /\ \A i \in 1..Len(raw) :
            /\ DOMAIN df[i] =
                 DOMAIN raw[i] \cup {"remote_work_type", "region", "job_category"}
            /\ DOMAIN raw[i] \subseteq DOMAIN df[i]
            /\ \A c \in DOMAIN raw[i] \ {"experience_level", "employment_type",
                                         "company_size"} :
                 df[i][c] = raw[i][c]

\* A table of three distinct rows, one of them with unmapped codes, has been
\* enriched.
C7_Witness ==
    /\ Rendered /\ Len(raw) = 3 /\ Len(df) = 3
    /\ raw[1] # raw[2] /\ raw[2] # raw[3] /\ raw[1] # raw[3]
    /\ \E i \in 1..Len(df) : df[i]["company_size"] = NaN

\* C8 as stated: for every integer remote_ratio r <= 100 the enriched row
\* has a defined remote_work_type, and it is On-site whenever r <= 0.
C8_AsStated ==
    Rendered =>
        \A i \in 1..Len(raw) :
            LET r == raw[i]["remote_ratio"]
                t == df[i]["remote_work_type"]
            IN  r <= 100 =>
                    /\ t \in {"On-site", "Hybrid", "Full-remote"}
                    /\ r <= 0 => t = "On-site"

\* C8 as amended: for every integer remote_ratio r with -1 < r <= 100 the
\* enriched row has a defined remote_work_type, On-site whenever r <= 0;
\* for every r <= -1, and every r > 100, remote_work_type is missing.
C8_Amended ==
    Rendered =>
        \A i \in 1..Len(raw) :
            LET r == raw[i]["remote_ratio"]
                t == df[i]["remote_work_type"]
            IN  /\ (-1 < r /\ r <= 100) =>
                    /\ t \in {"On-site", "Hybrid", "Full-remote"}
                    /\ r <= 0 => t = "On-site"
                /\ (r <= -1 \/ r > 100) => t = NaN

\* A row with remote_ratio -1 has been enriched and its remote_work_type is
\* missing.
C8_Witness ==
    /\ Rendered
    /\ \E i \in 1..Len(raw) :
        raw[i]["remote_ratio"] = -1 /\ df[i]["remote_work_type"] = NaN

\* C9: in experience_level, employment_type and company_size a raw code of
\* the lookup table is replaced by its label and any other raw code by the
\* missing value, with no fallback label; the row with the unmapped code is
\* still in the table, the script run completes, and the row's derived
\* columns are the ones its source columns give as usual.
C9_RecodeOrMissing ==
    Rendered =>
        LET tables ==
                [ experience_level |->
                    { <<"EN", "Entry-level">>, <<"MI", "Mid-level">>,
                      <<"SE", "Senior-level">>, <<"EX", "Executive-level">> },
                  employment_type |->
                    { <<"FT", "Full-time">>, <<"PT", "Part-time">>,
                      <<"CT", "Contract">>, <<"FL", "Freelance">> },
                  company_size |->
                    { <<"S", "Small">>, <<"M", "Medium">>, <<"L", "Large">> } ]
            Unmapped(i, c) == \A p \in tables[c] : raw[i][c] # p[1]
        IN  /\ Len(df) = Len(raw)
            /\ \A i \in 1..Len(raw) :
                /\ \A c \in DOMAIN tables :
                    /\ \A p \in tables[c] : raw[i][c] = p[1] => df[i][c] = p[2]
                    /\ Unmapped(i, c) => df[i][c] = NaN
                /\ (\E c \in DOMAIN tables : Unmapped(i, c)) =>
                    /\ df[i]["region"] = get_region(raw[i]["company_location"])
                    /\ df[i]["job_category"] = categorize_job(raw[i]["job_title"])
                    /\ df[i]["remote_work_type"] = cut(raw[i]["remote_ratio"])
                    /\ \A o \in {"work_year", "job_title", "salary_in_usd",
                                 "remote_ratio", "company_location"} :
                         df[i][o] = raw[i][o]

\* A row whose experience_level and company_size codes are not in the lookup
\* tables has been enriched: both are missing, its other fields are derived.
C9_Witness ==
    /\ Rendered
    /\ \E i \in 1..Len(raw) :
        /\ raw[i]["experience_level"] = "XX" /\ raw[i]["company_size"] = "XL"
        /\ df[i]["experience_level"] = NaN /\ df[i]["company_size"] = NaN
        /\ df[i]["employment_type"] = "Full-time"
        /\ df[i]["region"] = "Other" /\ df[i]["job_category"] = "Management"
        /\ df[i]["remote_work_type"] = "Full-remote"

\* C10: the enriched table is produced by the enrichment of the raw table in
\* the first script run, and no later step changes it or the cached copy;
\* every later step computes filtered_df from that unchanged table and the
\* new selection, not from the previous filtered_df.
C10_EnrichedWrittenOnce ==
    [][ /\ pc = "start" => df' = Enrich(raw)
        /\ pc = "rendered" =>
            /\ df' = df
            /\ cache' = cache
            /\ raw' = raw
            /\ \A i \in 1..Len(df) :
                 (\E j \in 1..Len(filtered_df') : filtered_df'[j] = df[i])
                 <=> /\ df[i]["work_year"] \in selected'.years
                     /\ df[i]["experience_level"] \in selected'.exp_levels
                     /\ df[i]["job_category"] \in selected'.job_cats
                     /\ df[i]["region"] \in selected'.regions
                     /\ df[i]["company_size"] \in selected'.company_sizes
                     /\ df[i]["remote_work_type"] \in selected'.remote_types
      ]_vars

\* After two selection changes on a table of three rows, df is still the
\* enrichment of the raw table, the cache holds it, and filtered_df has all
\* three rows again.
C10_Witness ==
    /\ Rendered /\ runs >= 3 /\ Len(df) = 3
    /\ df = Enrich(raw) /\ cache.value = df
    /\ Len(filtered_df) = 3
    /\ \E i \in 1..Len(df) : df[i]["company_size"] # df[1]["company_size"]

====
